---- MODULE Spec2Model ----
(***************************************************************************)
(* A model of the debate generation pipeline: the persona catalog, the     *)
(* retrying API client (GrokClient), the voice enhancer and the debate     *)
(* orchestrator (DebateGenerator).                                         *)
(*                                                                         *)
(* Conventions.                                                            *)
(*  - An optional value (a field that may be undefined) is <<>> when       *)
(*    absent and <<v>> when present.                                       *)
(*  - A string whose characters matter (generated content) is a sequence   *)
(*    of one-character strings; other strings are TLA+ strings.            *)
(*  - Bias levels are in hundredths (0.3 is 30), temperatures in           *)
(*    ten-thousandths (0.65 is 6500).                                      *)
(*  - Costs are in ten-millionths of a dollar ($0.20 per million tokens    *)
(*    is 2 per token, $0.025 is 250000).                                   *)
(***************************************************************************)
EXTENDS Integers, Sequences, FiniteSets, TLC

VARIABLES
    clientConfig, \* the GrokApiConfig the client was constructed with
    client,     \* the GrokClient instance: its private fields
    call,       \* a generate call made directly on the client
    attempts,   \* history: requests sent by `call`
    waits,      \* history: backoff sleeps started by `call`
    errors,     \* history: the error of each failed attempt of `call`, in order
    config,     \* the DebateConfig handed to generateDebate
    debate,     \* the generateDebate call: its status, result and error
    pipeline,   \* the two generatePersonaResponse calls, by position
    request,    \* one makeRequest call, with the time since it began
    probe,      \* the latest call of a pure method: its arguments and result
    wire,       \* the latest request each client has sent, and the latest reply
    libCall     \* a generate call on the library's client

vars ==
    <<clientConfig, client, call, attempts, waits, errors, config, debate, pipeline,
      request, probe, wire, libCall>>

----------------------------------------------------------------------------
(* Optional values and strings *)

None == <<>>
Some(v) == <<v>>

Rep(c, n) == [i \in 1..n |-> c]

Last(s) == s[Len(s)]

\* Math.min
Min(a, b) == IF a <= b THEN a ELSE b

SetMin(S) == CHOOSE x \in S : \A y \in S : x <= y
SetMax(S) == CHOOSE x \in S : \A y \in S : x >= y

IsWhiteSpace(c) == c \in {" ", "\n", "\t"}

\* String.prototype.trim
trim(s) ==
    IF \A i \in 1..Len(s) : IsWhiteSpace(s[i])
    THEN <<>>
    ELSE LET first == CHOOSE i \in 1..Len(s) :
                        ~IsWhiteSpace(s[i]) /\ \A j \in 1..(i - 1) : IsWhiteSpace(s[j])
             back == CHOOSE k \in 0..(Len(s) - 1) :
                        /\ ~IsWhiteSpace(s[Len(s) - k])
                        /\ \A j \in 0..(k - 1) : IsWhiteSpace(s[Len(s) - j])
         IN  SubSeq(s, first, Len(s) - back)

\* String.prototype.split
RECURSIVE split(_, _)
split(s, separator) ==
    IF \A i \in 1..Len(s) : s[i] /= separator
    THEN <<s>>
    ELSE LET at == CHOOSE i \in 1..Len(s) :
                    s[i] = separator /\ \A j \in 1..(i - 1) : s[j] /= separator
         IN  <<SubSeq(s, 1, at - 1)>> \o split(SubSeq(s, at + 1, Len(s)), separator)

\* String.prototype.substring(from, to) and substring(from), 0-based
substring(s, from, to) == SubSeq(s, from + 1, to)
substringFrom(s, from) == SubSeq(s, from + 1, Len(s))

----------------------------------------------------------------------------
(* Persona catalog *)

PersonaTypes ==
    {"liberal_grassroots", "liberal_expert", "conservative_patriot", "conservative_expert"}

\* PersonaRegistry.personas after initializePersonas
personas ==
    [t \in PersonaTypes |->
        [personaId |-> t,
         politicalLeaning |->
            IF t \in {"liberal_grassroots", "liberal_expert"} THEN "liberal" ELSE "conservative",
         expertiseLevel |->
            IF t \in {"liberal_expert", "conservative_expert"} THEN "expert" ELSE "grassroots"]]

getPersona(type) == IF type \in DOMAIN personas THEN Some(personas[type]) ELSE None

\* A plausible slip: only the existence of both profiles is checked.
validatePersonaPairNoLeaning(persona1, persona2) ==
    getPersona(persona1) /= None /\ getPersona(persona2) /= None

validatePersonaPair(persona1, persona2) ==
    LET p1 == getPersona(persona1)
        p2 == getPersona(persona2)
    IN  IF p1 = None \/ p2 = None
        THEN FALSE
        ELSE p1[1].politicalLeaning /= p2[1].politicalLeaning

\* The keys of PersonaRegistry.personas in the order of insertion
personaOrder ==
    <<"liberal_grassroots", "liberal_expert", "conservative_patriot", "conservative_expert">>

getAllPersonas == [i \in 1..Len(personaOrder) |-> personas[personaOrder[i]]]

PersonaCombination(p1, p2) ==
    [id |-> <<p1.personaId, "_vs_", p2.personaId>>,
     persona1 |-> p1,
     persona2 |-> p2,
     politicalMatchup |-> <<p1.politicalLeaning, " vs ", p2.politicalLeaning>>]

\* The inner loop started at the first profile, leaving out j = i only.
RECURSIVE combinationsFromStart(_, _, _, _)
combinationsFromStart(allPersonas, i, j, combinations) ==
    IF i > Len(allPersonas) THEN combinations
    ELSE IF j > Len(allPersonas)
    THEN combinationsFromStart(allPersonas, i + 1, 1, combinations)
    ELSE combinationsFromStart(allPersonas, i, j + 1,
            IF i /= j /\ allPersonas[i].politicalLeaning /= allPersonas[j].politicalLeaning
            THEN Append(combinations, PersonaCombination(allPersonas[i], allPersonas[j]))
            ELSE combinations)

getValidCombinationsBothOrders(allPersonas) == combinationsFromStart(allPersonas, 1, 1, <<>>)

\* The two loops of getValidCombinations, at positions i and j (counted
\* from 1) with the entries pushed so far
RECURSIVE combinationsFrom(_, _, _, _)
combinationsFrom(allPersonas, i, j, combinations) ==
    IF i > Len(allPersonas) THEN combinations
    ELSE IF j > Len(allPersonas)
    THEN combinationsFrom(allPersonas, i + 1, i + 2, combinations)
    ELSE combinationsFrom(allPersonas, i, j + 1,
            IF allPersonas[i].politicalLeaning /= allPersonas[j].politicalLeaning
            THEN Append(combinations, PersonaCombination(allPersonas[i], allPersonas[j]))
            ELSE combinations)

\* getValidCombinations over the profiles getAllPersonas returns; the
\* registry calls it on its own catalog
getValidCombinations(allPersonas) == combinationsFrom(allPersonas, 1, 2, <<>>)

----------------------------------------------------------------------------
(* Upstream replies *)

\* A reply is the response's status, the text of an error body and the
\* fields of a JSON body that parseResponse reads; usage, search_results
\* and sources are optional values.
OkReplyWith(c, usage, search_results, sources) ==
    [kind |-> "response", status |-> 200, text |-> "", choices |-> <<[content |-> c]>>,
     usage |-> usage, search_results |-> search_results, sources |-> sources]
SampleUsage == [prompt_tokens |-> 1200, completion_tokens |-> 800, total_tokens |-> 2000]
OkReply(c) == OkReplyWith(c, Some(SampleUsage), None, None)
NoChoicesReply ==
    [kind |-> "response", status |-> 200, text |-> "", choices |-> <<>>,
     usage |-> None, search_results |-> None, sources |-> None]
StatusReply(s, t) ==
    [kind |-> "response", status |-> s, text |-> t, choices |-> <<>>,
     usage |-> None, search_results |-> None, sources |-> None]
AbortReply ==
    [kind |-> "abort", status |-> 0, text |-> "", choices |-> <<>>,
     usage |-> None, search_results |-> None, sources |-> None]

\* response.ok
ok(reply) == reply.status \in 200..299

----------------------------------------------------------------------------
(* GrokClient *)

DefaultMaxRetries == 3
DefaultTimeout == 60000
RateLimitStatus == 429
InputCostPerToken == 2
OutputCostPerToken == 5
SearchCostPerSource == 250000

\* constructor: the fields generate and makeRequest read; the timeout is
\* in milliseconds
GrokClient(cfg) ==
    [maxRetries |->
        IF cfg.maxRetries = None \/ cfg.maxRetries[1] = 0
        THEN DefaultMaxRetries
        ELSE cfg.maxRetries[1],
     timeout |->
        IF cfg.timeout = None \/ cfg.timeout[1] = 0
        THEN DefaultTimeout
        ELSE cfg.timeout[1]]

\* The outcome of a call that either throws or returns.
Throw(e) == [error |-> Some(e), value |-> None]
Return(v) == [error |-> None, value |-> Some(v)]

HttpError(reply) ==
    [error |-> "API request failed", statusCode |-> Some(reply.status),
     code |-> None, body |-> reply.text]
TimeoutError ==
    [error |-> "Request timeout", statusCode |-> None, code |-> Some("TIMEOUT"), body |-> ""]
NoChoicesError ==
    [error |-> "Invalid response: no choices returned", statusCode |-> None,
     code |-> None, body |-> ""]

\* makeRequest, from the reply the upstream gives to the fetch
makeRequest(reply) ==
    IF reply.kind = "abort"
    THEN Throw(TimeoutError)
    ELSE IF ~ok(reply)
         THEN Throw(HttpError(reply))
         ELSE Return([choices |-> reply.choices, usage |-> reply.usage,
                      search_results |-> reply.search_results, sources |-> reply.sources])

\* makeRequest step by step.  elapsed is the time in milliseconds since the
\* call began, timer tells whether the abort timer is still armed.
\* The call arms the timer and starts the fetch.
startRequest ==
    [phase |-> "fetch", elapsed |-> 0, timer |-> TRUE, reply |-> None, outcome |-> None]

\* The fetch resolves with the response's status line and headers: the
\* timer is cleared, then the body is awaited (text() of an error
\* response, json() of a successful one).
fetchResolved(r, reply) ==
    [r EXCEPT !.phase = "body", !.timer = FALSE, !.reply = Some(reply)]

\* The body has been read: the call throws or returns.
bodyRead(r) ==
    [r EXCEPT !.phase = "ended", !.outcome = Some(makeRequest(r.reply[1]))]

\* The timer fires: controller.abort() rejects the pending fetch with an
\* AbortError, which the catch block turns into the timeout failure.
timerFired(r) ==
    [r EXCEPT !.phase = "ended", !.timer = FALSE, !.outcome = Some(makeRequest(AbortReply))]

\* The timer is due.
timerDue(self, r) == r.timer /\ r.elapsed >= self.timeout

parseResponse(response, model, useSearch) ==
    IF response.choices = <<>>
    THEN Throw(NoChoicesError)
    ELSE LET searchResults ==
                 IF response.search_results /= None
                 THEN response.search_results[1]
                 ELSE response.sources[1]
             withSources ==
                 useSearch /\ (response.search_results /= None \/ response.sources /= None)
         IN  Return(
                [content |-> response.choices[1].content,
                 model |-> model,
                 usage |->
                    IF response.usage /= None
                    THEN Some([promptTokens |-> response.usage[1].prompt_tokens,
                               completionTokens |-> response.usage[1].completion_tokens,
                               totalTokens |-> response.usage[1].total_tokens])
                    ELSE None,
                 sources |->
                    IF withSources
                    THEN Some([i \in DOMAIN searchResults |-> [url |-> searchResults[i].url]])
                    ELSE None,
                 searchCost |->
                    IF withSources
                    THEN Some(Len(searchResults) * SearchCostPerSource)
                    ELSE None])

\* Always with the search block.
requestBodySearchAlways(options) ==
    [model |-> options.model,
     temperature |-> options.temperature,
     max_tokens |-> options.maxTokens,
     search_parameters |->
        Some([domains |-> <<"x.com", "twitter.com">>, post_favorite_count |-> 10,
              post_view_count |-> 100, time_range |-> "week", max_sources |-> 20])]

\* The body generate builds from its options.
requestBody(options) ==
    [model |-> options.model,
     temperature |-> options.temperature,
     max_tokens |-> options.maxTokens,
     search_parameters |->
        IF options.useSearch
        THEN Some([domains |-> <<"x.com", "twitter.com">>, post_favorite_count |-> 10,
                   post_view_count |-> 100, time_range |-> "week", max_sources |-> 20])
        ELSE None]

endpoint(options) == "/chat/completions"

\* What makeRequest posts for a call with these options
sentRequest(options) == [endpoint |-> endpoint(options), body |-> requestBody(options)]

\* A generate call. phase: "request" while makeRequest is pending, "sleep"
\* during a backoff wait, "returned" / "thrown" once it has ended.
\* error = None with phase "thrown" is a thrown undefined.
NewCall(options) ==
    [phase |-> "none", attempt |-> 0, lastError |-> None, options |-> options,
     value |-> None, error |-> None]

NoOptions ==
    [prompt |-> [kind |-> "none", persona |-> "", sample |-> <<>>], model |-> "",
     temperature |-> 0,
     maxTokens |-> 0, useSearch |-> FALSE]

NoCall == NewCall(NoOptions)

\* Off by one: the loop admits attempt = maxRetries.
loopHeadInclusive(self, g) ==
    IF g.attempt <= self.maxRetries
    THEN [g EXCEPT !.phase = "request"]
    ELSE [g EXCEPT !.phase = "thrown", !.error = g.lastError]

\* for (...; attempt < this.maxRetries; ...) and the throw after the loop
loopHead(self, g) ==
    IF g.attempt < self.maxRetries
    THEN [g EXCEPT !.phase = "request"]
    ELSE [g EXCEPT !.phase = "thrown", !.error = g.lastError]

\* try { makeRequest; parseResponse }
tryAttempt(g, reply) ==
    LET response == makeRequest(reply)
    IN  IF response.error /= None
        THEN response
        ELSE parseResponse(response.value[1], g.options.model, g.options.useSearch)

\* Retrying on every failure that carries a status.
isRateLimitAnyStatus(error) == error.statusCode /= None

isRateLimit(error) == error.statusCode = Some(RateLimitStatus)

\* Keeping the first error instead of the latest.
recordErrorFirst(g, error) ==
    IF g.lastError = None THEN [g EXCEPT !.lastError = Some(error)] ELSE g

\* lastError = error
recordError(g, error) == [g EXCEPT !.lastError = Some(error)]

\* catch (error) { ... }
catch(g, error) ==
    LET h == recordError(g, error)
    IN  IF isRateLimit(error)
        THEN [h EXCEPT !.phase = "sleep"]
        ELSE [h EXCEPT !.phase = "thrown", !.error = Some(error)]

\* generate up to its first await
generate(self, options) == loopHead(self, NewCall(options))

\* generate resumed when makeRequest settles
generateAfterRequest(self, g, reply) ==
    LET r == tryAttempt(g, reply)
    IN  IF r.error /= None
        THEN catch(g, r.error[1])
        ELSE [g EXCEPT !.phase = "returned", !.value = r.value]

\* A continue that does not count the attempt.
generateAfterSleepSameAttempt(self, g) == loopHead(self, g)

\* generate resumed when the sleep ends: continue
generateAfterSleep(self, g) == loopHead(self, [g EXCEPT !.attempt = @ + 1])

\* The library's copy of the client (src/lib/grok-client.ts). Its
\* constructor, makeRequest, retry loop and catch block are the app's line
\* for line; generate's endpoint and request body and parseResponse differ.
libEndpoint(options) ==
    IF options.useSearch THEN "/chat/completions/search" ELSE "/chat/completions"

\* frequencyPenalty and presencePenalty are options of the library only,
\* 0 when not given
libRequestBody(options) ==
    [model |-> options.model,
     temperature |-> options.temperature,
     max_tokens |-> options.maxTokens,
     frequency_penalty |-> 0,
     presence_penalty |-> 0,
     enable_search |-> IF options.useSearch THEN Some(TRUE) ELSE None,
     max_search_sources |-> IF options.useSearch THEN Some(3) ELSE None]

libSentRequest(options) ==
    [endpoint |-> libEndpoint(options), body |-> libRequestBody(options)]

\* The library reads search_results only
libParseResponse(response, model, useSearch) ==
    IF response.choices = <<>>
    THEN Throw(NoChoicesError)
    ELSE LET withSources == useSearch /\ response.search_results /= None
         IN  Return(
                [content |-> response.choices[1].content,
                 model |-> model,
                 usage |->
                    IF response.usage /= None
                    THEN Some([promptTokens |-> response.usage[1].prompt_tokens,
                               completionTokens |-> response.usage[1].completion_tokens,
                               totalTokens |-> response.usage[1].total_tokens])
                    ELSE None,
                 sources |->
                    IF withSources
                    THEN Some([i \in DOMAIN response.search_results[1] |->
                                    [url |-> response.search_results[1][i].url]])
                    ELSE None,
                 searchCost |->
                    IF withSources
                    THEN Some(Len(response.search_results[1]) * SearchCostPerSource)
                    ELSE None])

libTryAttempt(g, reply) ==
    LET response == makeRequest(reply)
    IN  IF response.error /= None
        THEN response
        ELSE libParseResponse(response.value[1], g.options.model, g.options.useSearch)

libGenerate(self, options) == loopHead(self, NewCall(options))

libGenerateAfterRequest(self, g, reply) ==
    LET r == libTryAttempt(g, reply)
    IN  IF r.error /= None
        THEN catch(g, r.error[1])
        ELSE [g EXCEPT !.phase = "returned", !.value = r.value]

libGenerateAfterSleep(self, g) == loopHead(self, [g EXCEPT !.attempt = @ + 1])

BaseDelay == 1000
MaxDelay == 30000

\* Math.random() is one of the fractions n / RandomSteps, n below RandomSteps
RandomSteps == 10

\* The exponential base without its cap.
getRetryDelayUncapped(attempt, n) ==
    LET delay == BaseDelay * 2^attempt
    IN  (10 * RandomSteps * delay + 3 * n * delay) \div (10 * RandomSteps)

\* getRetryDelay in milliseconds, Math.random() having given n / RandomSteps:
\* Math.floor(delay + random * 0.3 * delay)
getRetryDelay(attempt, n) ==
    LET delay == Min(BaseDelay * 2^attempt, MaxDelay)
    IN  (10 * RandomSteps * delay + 3 * n * delay) \div (10 * RandomSteps)

\* estimateCost; usage is an optional value
estimateCost(usage, searchSources) ==
    IF usage = None
    THEN 0
    ELSE LET inputCost == usage[1].promptTokens * InputCostPerToken
             outputCost == usage[1].completionTokens * OutputCostPerToken
             searchCost == searchSources * SearchCostPerSource
         IN  inputCost + outputCost + searchCost

UpperCase ==
    <<"A", "B", "C", "D", "E", "F", "G", "H", "I", "J", "K", "L", "M",
      "N", "O", "P", "Q", "R", "S", "T", "U", "V", "W", "X", "Y", "Z">>
LowerCase ==
    <<"a", "b", "c", "d", "e", "f", "g", "h", "i", "j", "k", "l", "m",
      "n", "o", "p", "q", "r", "s", "t", "u", "v", "w", "x", "y", "z">>

\* String.prototype.toLowerCase on a string of ASCII characters
toLowerCase(s) ==
    [i \in 1..Len(s) |->
        IF \E n \in DOMAIN UpperCase : UpperCase[n] = s[i]
        THEN LowerCase[CHOOSE n \in DOMAIN UpperCase : UpperCase[n] = s[i]]
        ELSE s[i]]

\* String.prototype.includes
includes(s, keyword) ==
    \E i \in 0..(Len(s) - Len(keyword)) : SubSeq(s, i + 1, i + Len(keyword)) = keyword

reasoningKeywords ==
    {<<"a", "n", "a", "l", "y", "z", "e">>,
     <<"c", "o", "m", "p", "l", "e", "x">>,
     <<"s", "y", "s", "t", "e", "m", "a", "t", "i", "c">>,
     <<"c", "o", "n", "s", "t", "i", "t", "u", "t", "i", "o", "n", "a", "l">>,
     <<"p", "o", "l", "i", "c", "y">>,
     <<"e", "c", "o", "n", "o", "m", "i", "c">>,
     <<"h", "i", "s", "t", "o", "r", "i", "c", "a", "l">>,
     <<"l", "e", "g", "a", "l">>,
     <<"i", "m", "p", "a", "c", "t">>,
     <<"c", "o", "m", "p", "r", "e", "h", "e", "n", "s", "i", "v", "e">>,
     <<"e", "v", "a", "l", "u", "a", "t", "e">>,
     <<"c", "o", "m", "p", "a", "r", "e">>,
     <<"e", "x", "p", "l", "a", "i", "n">>}

ReasoningMinLength == 100

\* Topic and context joined without the space of the template.
selectModelNoSeparator(topic, context) ==
    LET combinedText == toLowerCase(topic \o (IF context = None THEN <<>> ELSE context[1]))
        needsReasoning ==
            \/ \E keyword \in reasoningKeywords : includes(combinedText, keyword)
            \/ Len(combinedText) > ReasoningMinLength
    IN  IF needsReasoning THEN "grok-4-fast-reasoning" ELSE "grok-4-fast"

\* selectModel; context is an optional value. The template puts a space
\* after the topic, with or without a context
selectModel(topic, context) ==
    LET combinedText ==
            toLowerCase(topic \o <<" ">> \o (IF context = None THEN <<>> ELSE context[1]))
        needsReasoning ==
            \/ \E keyword \in reasoningKeywords : includes(combinedText, keyword)
            \/ Len(combinedText) > ReasoningMinLength
    IN  IF needsReasoning THEN "grok-4-fast-reasoning" ELSE "grok-4-fast"

----------------------------------------------------------------------------
(* VoiceEnhancer *)

SampleMaxLength == 600
EnhancedMinLength == 50
EnhanceBaseTemperature == 8000
EnhanceMaxTokens == 800

\* enhanceContent up to its await: the options of its generate call
enhanceOptions(content, persona, biasLevel) ==
    LET sampleLength == Min(SampleMaxLength, Len(content))
        contentSample == substring(content, 0, sampleLength)
    IN  [prompt |-> [kind |-> "enhance", persona |-> persona.personaId, sample |-> contentSample],
         model |-> "grok-4-fast",
         temperature |-> EnhanceBaseTemperature + biasLevel * 10,
         maxTokens |-> EnhanceMaxTokens,
         useSearch |-> FALSE]

\* Accepting whatever text came back.
enhancedTextAlways(content, enhancedExcerpt) ==
    enhancedExcerpt \o substringFrom(content, Min(SampleMaxLength, Len(content)))

\* The enhanced text put in front of the whole original content.
enhancedTextBeforeAll(content, enhancedExcerpt) ==
    IF enhancedExcerpt /= <<>> /\ Len(trim(enhancedExcerpt)) > EnhancedMinLength
    THEN enhancedExcerpt \o content
    ELSE content

\* enhanceContent once generate has returned a response
enhancedText(content, enhancedExcerpt) ==
    LET sampleLength == Min(SampleMaxLength, Len(content))
    IN  IF enhancedExcerpt /= <<>> /\ Len(trim(enhancedExcerpt)) > EnhancedMinLength
        THEN enhancedExcerpt \o substringFrom(content, sampleLength)
        ELSE content

\* enhanceContent resumed when its generate call g has ended: what it
\* returns or throws
enhanceContent(content, g) ==
    IF g.phase = "thrown"
    THEN Return(content)
    ELSE Return(enhancedText(content, g.value[1].content))

----------------------------------------------------------------------------
(* DebateGenerator *)

DefaultBiasLevel == 50
EnhanceMinContentLength == 500
EnhanceMinBiasLevel == 30
ExpertBaseTemperature == 6500
GrassrootsBaseTemperature == 7000
PrimaryMaxTokens == 2000

ValidationError ==
    [error |-> "Invalid persona selection: personas must be from opposing political sides",
     statusCode |-> None, code |-> None, body |-> ""]
InvalidIdsError ==
    [error |-> "Invalid persona IDs provided", statusCode |-> None, code |-> None, body |-> ""]

\* config.biasLevels || { persona1: 0.5, persona2: 0.5 }
biasLevelsOf(cfg) ==
    IF cfg.biasLevels = None
    THEN [persona1 |-> Some(DefaultBiasLevel), persona2 |-> Some(DefaultBiasLevel)]
    ELSE cfg.biasLevels[1]

\* config.useTwitterSearch ?? true
useTwitterSearchOf(cfg) ==
    IF cfg.useTwitterSearch = None THEN TRUE ELSE cfg.useTwitterSearch[1]

getPersonaTemperature(persona, biasLevel) ==
    LET baseTemp ==
            IF persona.expertiseLevel = "expert"
            THEN ExpertBaseTemperature
            ELSE GrassrootsBaseTemperature
    IN  baseTemp + biasLevel * 25

\* The threshold taken as inclusive.
shouldEnhanceInclusive(content, biasLevel) ==
    Len(content) >= EnhanceMinContentLength /\ biasLevel >= EnhanceMinBiasLevel

\* content.length > 500 && biasLevel > 0.3
shouldEnhance(content, biasLevel) ==
    Len(content) > EnhanceMinContentLength /\ biasLevel > EnhanceMinBiasLevel

Untitled == <<"U", "n", "t", "i", "t", "l", "e", "d">>

\* trimmed.replace(/^#\s*/, ''): one leading '#' and the white space after it
stripHeading(trimmed) ==
    IF trimmed /= <<>> /\ trimmed[1] = "#"
    THEN LET rest == {i \in 2..Len(trimmed) : ~IsWhiteSpace(trimmed[i])}
         IN  IF rest = {} THEN <<>> ELSE SubSeq(trimmed, SetMin(rest), Len(trimmed))
    ELSE trimmed

\* The loop of extractTitle over the lines: a line is passed over when
\* its trim() is empty, that is when it is all white space
titleOfLines(lines) ==
    LET blank(i) == \A k \in 1..Len(lines[i]) : IsWhiteSpace(lines[i][k])
    IN  IF \A i \in DOMAIN lines : blank(i)
        THEN Untitled
        ELSE LET first == CHOOSE i \in DOMAIN lines :
                            ~blank(i) /\ \A j \in 1..(i - 1) : blank(j)
             IN  stripHeading(trim(lines[first]))

extractTitle(content) == titleOfLines(split(content, "\n"))

\* The PersonaResponse generatePersonaResponse returns, without its title,
\* which is extractTitle(content) and nothing else reads
PersonaResponse(persona, grokResponse, content, biasLevel, voiceEnhanced) ==
    [perspective |-> persona.politicalLeaning,
     persona |-> [id |-> persona.personaId, expertiseLevel |-> persona.expertiseLevel],
     content |-> content,
     modelUsed |-> grokResponse.model,
     tokenUsage |-> grokResponse.usage,
     sourcesUsed |->
        IF grokResponse.sources = None
        THEN None
        ELSE Some([i \in DOMAIN grokResponse.sources[1] |-> grokResponse.sources[1][i].url]),
     biasLevel |-> biasLevel,
     voiceEnhanced |-> voiceEnhanced]

\* What is remembered of an enhancement call that has ended.
EnhanceEnded(g) ==
    [thrown |-> g.phase = "thrown",
     text |-> IF g.phase = "returned" THEN g.value[1].content ELSE <<>>]

\* An enhancement failure that escapes both handlers.
finishEnhanceRethrow(pl, g) ==
    IF g.phase = "thrown"
    THEN [pl EXCEPT !.pc = "rejected", !.gen = NoCall, !.enhanced = Some(EnhanceEnded(g)),
                    !.error = g.error]
    ELSE [pl EXCEPT !.pc = "fulfilled", !.gen = NoCall, !.enhanced = Some(EnhanceEnded(g)),
                    !.response = Some(PersonaResponse(pl.persona[1], pl.grokResponse[1],
                        enhancedText(pl.grokResponse[1].content, g.value[1].content),
                        pl.biasLevel, TRUE))]

\* generatePersonaResponse from the end of the enhancement's generate call
\* g to its return: the try/catch round enhanceContent, then the response
finishEnhance(pl, g) ==
    LET original == pl.grokResponse[1].content
        r == enhanceContent(original, g)
        content == IF r.error = None THEN r.value[1] ELSE original
        voiceEnhanced == r.error = None
    IN  [pl EXCEPT !.pc = "fulfilled", !.gen = NoCall, !.enhanced = Some(EnhanceEnded(g)),
                   !.response = Some(PersonaResponse(pl.persona[1], pl.grokResponse[1],
                                                     content, pl.biasLevel, voiceEnhanced))]

\* generatePersonaResponse while the enhancement's generate call is g
afterEnhance(pl, g) ==
    IF g.phase \in {"request", "sleep"}
    THEN [pl EXCEPT !.gen = g]
    ELSE finishEnhance(pl, g)

\* The enhancement begun without awaiting the primary call.
afterPrimaryNotAwaited(self, pl, g) ==
    IF g.phase \in {"request", "sleep"}
    THEN [pl EXCEPT !.gen = g, !.enhancerCalls = 1]
    ELSE IF g.phase = "thrown"
    THEN [pl EXCEPT !.pc = "rejected", !.gen = NoCall, !.error = g.error]
    ELSE [pl EXCEPT !.pc = "fulfilled", !.gen = NoCall, !.grokResponse = g.value,
                    !.response = Some(PersonaResponse(pl.persona[1], g.value[1],
                                                      g.value[1].content, pl.biasLevel, FALSE))]

\* generatePersonaResponse while the primary generate call is g
afterPrimary(self, pl, g) ==
    IF g.phase \in {"request", "sleep"}
    THEN [pl EXCEPT !.gen = g]
    ELSE IF g.phase = "thrown"
    THEN [pl EXCEPT !.pc = "rejected", !.gen = NoCall, !.error = g.error]
    ELSE LET grokResponse == g.value[1]
             content == grokResponse.content
         IN  IF shouldEnhance(content, pl.biasLevel)
             THEN afterEnhance(
                    [pl EXCEPT !.pc = "enhance", !.grokResponse = g.value,
                               !.enhancerCalls = @ + 1],
                    generate(self, enhanceOptions(content, pl.persona[1], pl.biasLevel)))
             ELSE [pl EXCEPT !.pc = "fulfilled", !.gen = NoCall, !.grokResponse = g.value,
                        !.response = Some(PersonaResponse(pl.persona[1], grokResponse,
                                                          content, pl.biasLevel, FALSE))]

NoPipeline ==
    [pc |-> "idle", gen |-> NoCall, persona |-> None, biasLevel |-> 0,
     grokResponse |-> None, enhanced |-> None, response |-> None, error |-> None,
     enhancerCalls |-> 0, settledAt |-> 0, late |-> FALSE]

\* The topic of the debates, with no context
DebateTopic == <<"t", "a", "x", "e", "s">>

\* generatePersonaResponse up to its first await; biasLevelArg is the
\* argument, absent or a number
generatePersonaResponse(self, persona, useTwitterSearch, biasLevelArg) ==
    LET biasLevel == IF biasLevelArg = None THEN DefaultBiasLevel ELSE biasLevelArg[1]
        options ==
            [prompt |-> [kind |-> "post", persona |-> persona.personaId, sample |-> <<>>],
             model |-> selectModel(DebateTopic, None),
             temperature |-> getPersonaTemperature(persona, biasLevel),
             maxTokens |-> PrimaryMaxTokens,
             useSearch |-> useTwitterSearch]
    IN  afterPrimary(self,
            [NoPipeline EXCEPT !.pc = "primary", !.persona = Some(persona),
                               !.biasLevel = biasLevel],
            generate(self, options))

settled(pl) == pl.pc \in {"fulfilled", "rejected"}

\* The step that takes a pipeline from old to new issues a request.
issuesRequest(old, new) ==
    new.gen.phase = "request" /\ (old.gen.phase /= "request" \/ old.pc /= new.pc)

\* History kept with a pipeline left as pl by its step: settledAt is its
\* rank in the order in which the pipelines settled (0 while pending), late
\* tells whether it has issued a request after generateDebate failed.
history(d, pls, p, pl) ==
    [pl EXCEPT
        !.settledAt =
            IF settled(pl) /\ ~settled(pls[p])
            THEN 1 + Cardinality({q \in DOMAIN pls : settled(pls[q])})
            ELSE @,
        !.late = @ \/ (d.status = "failed" /\ issuesRequest(pls[p], pl))]

\* A rejection that aborts the pending siblings.
resumeCancelling(d, pls, p, pl) ==
    [q \in DOMAIN pls |->
        IF q = p THEN history(d, pls, p, pl)
        ELSE IF pl.pc = "rejected" /\ ~settled(pls[q])
        THEN [pls[q] EXCEPT !.pc = "rejected", !.gen = NoCall, !.error = Some(TimeoutError)]
        ELSE pls[q]]

\* The pipelines after a continuation of pipeline p has run and left it as
\* pl: the two calls share no state and no abort signal, so the step moves
\* p's promise alone
resume(d, pls, p, pl) == [pls EXCEPT ![p] = history(d, pls, p, pl)]

\* A join that settles on the first pipeline alone.
PromiseAllFirst(pls) ==
    IF pls[1].pc = "rejected" THEN "rejected"
    ELSE IF pls[1].pc = "fulfilled" THEN "fulfilled"
    ELSE "pending"

\* The state of Promise.all([...]) over the two pipelines
PromiseAll(pls) ==
    IF \E p \in DOMAIN pls : pls[p].pc = "rejected" THEN "rejected"
    ELSE IF \A p \in DOMAIN pls : pls[p].pc = "fulfilled" THEN "fulfilled"
    ELSE "pending"

\* The cost of one awaited response, an optional value as in DebateResult:
\* estimateCost(response.tokenUsage, response.sourcesUsed?.length || 0)
responseCost(response) ==
    IF response = None
    THEN 0
    ELSE estimateCost(response[1].tokenUsage,
                      IF response[1].sourcesUsed = None
                      THEN 0
                      ELSE Len(response[1].sourcesUsed[1]))

calculateTotalCost(response1, response2) ==
    LET cost1 == responseCost(response1)
        cost2 == responseCost(response2)
    IN  cost1 + cost2

costAnalysis(pls) ==
    [totalEstimatedCost |-> calculateTotalCost(pls[1].response, pls[2].response),
     costBreakdown |->
        [persona1 |-> IF pls[1].response = None THEN None ELSE pls[1].response[1].tokenUsage,
         persona2 |-> IF pls[2].response = None THEN None ELSE pls[2].response[1].tokenUsage]]

\* The responses taken in the order in which the pipelines settled.
DebateResultByArrival(cfg, pls) ==
    LET nth(n) == CHOOSE p \in DOMAIN pls : pls[p].settledAt = n
    IN  [personas |->
            [persona1 |-> [id |-> cfg.persona1Id, info |-> pls[nth(1)].persona,
                           content |-> pls[nth(1)].response],
             persona2 |-> [id |-> cfg.persona2Id, info |-> pls[nth(2)].persona,
                           content |-> pls[nth(2)].response]],
         generationMetadata |->
            [twitterSearchEnabled |-> useTwitterSearchOf(cfg),
             biasLevels |-> biasLevelsOf(cfg)],
         costAnalysis |-> costAnalysis(pls)]

\* The DebateResult generateDebate compiles; info and content are
\* optional values here, Some(r) for an awaited response r
DebateResult(cfg, pls) ==
    [personas |->
        [persona1 |-> [id |-> cfg.persona1Id, info |-> pls[1].persona, content |-> pls[1].response],
         persona2 |-> [id |-> cfg.persona2Id, info |-> pls[2].persona, content |-> pls[2].response]],
     generationMetadata |->
        [twitterSearchEnabled |-> useTwitterSearchOf(cfg),
         biasLevels |-> biasLevelsOf(cfg)],
     costAnalysis |-> costAnalysis(pls)]

\* The second call made only when the first has been awaited.
generateDebateSequential(self, cfg) ==
    IF ~validatePersonaPair(cfg.persona1Id, cfg.persona2Id)
    THEN [debate |-> [status |-> "failed", error |-> Some(ValidationError), result |-> None],
          pipelines |-> [p \in 1..2 |-> NoPipeline]]
    ELSE IF getPersona(cfg.persona1Id) = None \/ getPersona(cfg.persona2Id) = None
    THEN [debate |-> [status |-> "failed", error |-> Some(InvalidIdsError), result |-> None],
          pipelines |-> [p \in 1..2 |-> NoPipeline]]
    ELSE [debate |-> [status |-> "running", error |-> None, result |-> None],
          pipelines |->
            <<generatePersonaResponse(self, getPersona(cfg.persona1Id)[1],
                                      useTwitterSearchOf(cfg), biasLevelsOf(cfg).persona1),
              NoPipeline>>]

\* generateDebate up to its await: validation, then both pipelines started
\* in order; the resulting state of the call and of the pipelines
generateDebate(self, cfg) ==
    IF ~validatePersonaPair(cfg.persona1Id, cfg.persona2Id)
    THEN [debate |-> [status |-> "failed", error |-> Some(ValidationError), result |-> None],
          pipelines |-> [p \in 1..2 |-> NoPipeline]]
    ELSE IF getPersona(cfg.persona1Id) = None \/ getPersona(cfg.persona2Id) = None
    THEN [debate |-> [status |-> "failed", error |-> Some(InvalidIdsError), result |-> None],
          pipelines |-> [p \in 1..2 |-> NoPipeline]]
    ELSE LET persona1 == getPersona(cfg.persona1Id)[1]
             persona2 == getPersona(cfg.persona2Id)[1]
             biasLevels == biasLevelsOf(cfg)
         IN  [debate |-> [status |-> "running", error |-> None, result |-> None],
              pipelines |->
                <<generatePersonaResponse(self, persona1, useTwitterSearchOf(cfg),
                                          biasLevels.persona1),
                  generatePersonaResponse(self, persona2, useTwitterSearchOf(cfg),
                                          biasLevels.persona2)>>]

\* generateDebate resumed when the pipelines (now pls) move: the await of
\* Promise.all, the result, the catch that rethrows
awaitPipelines(d, cfg, pls) ==
    IF d.status /= "running"
    THEN d
    ELSE IF PromiseAll(pls) = "rejected"
    THEN LET first == SetMin({p \in DOMAIN pls : pls[p].pc = "rejected"})
         IN  [d EXCEPT !.status = "failed", !.error = pls[first].error]
    ELSE IF PromiseAll(pls) = "fulfilled"
    THEN [d EXCEPT !.status = "success", !.result = Some(DebateResult(cfg, pls))]
    ELSE d

----------------------------------------------------------------------------
(* Inputs *)

MaxRetryOverride == 3

\* GrokApiConfig.maxRetries: absent, or a number from 0 up
RetryOverrides == {None} \cup {Some(n) : n \in 0..MaxRetryOverride}

c400 == Rep("a", 400)
c500 == Rep("a", 500)
c501 == Rep("a", 501)
c700 == Rep("a", 600) \o Rep("b", 100)

\* Texts the upstream returns for a primary generation
PrimaryContents == {<<>>, c400, c500, c501, c700}

e50 == Rep(" ", 5) \o Rep("e", 50) \o Rep("\n", 5)
e51 == Rep("e", 51)

\* Texts the upstream returns for a rewrite
EnhancedContents == {<<>>, Rep(" ", 60), e50, e51}

ErrorReplies ==
    {StatusReply(429, "rate limit, first wording"),
     StatusReply(429, "rate limit, second wording"),
     StatusReply(500, "internal error"),
     AbortReply,
     NoChoicesReply}

\* Options of a direct call, with and without search, and those of a
\* voice-enhancement call
ClientOptions ==
    {[prompt |-> [kind |-> "direct", persona |-> "", sample |-> <<>>], model |-> "grok-4-fast",
      temperature |-> 7000, maxTokens |-> 2000, useSearch |-> s] : s \in BOOLEAN}
    \cup {enhanceOptions(c501, personas["liberal_expert"], DefaultBiasLevel)}

\* Replies of a search: without a usage object, and with a sources array
\* in place of search_results
SearchReplies ==
    {OkReplyWith(c400, None,
                 Some(<<[url |-> "https://x.com/a/1"], [url |-> "https://x.com/b/2"]>>), None),
     OkReplyWith(c400, Some(SampleUsage), None, Some(<<[url |-> "https://x.com/c/3"]>>))}

ClientReplies == ErrorReplies \cup {OkReply(c400), OkReply(<<>>)} \cup SearchReplies

\* Replies to the requests of a debate
FailureReplies ==
    {StatusReply(429, "rate limit"), StatusReply(500, "internal error"), AbortReply,
     NoChoicesReply}
PrimaryReplies == FailureReplies \cup {OkReply(c) : c \in PrimaryContents} \cup SearchReplies
EnhanceReplies == FailureReplies \cup {OkReply(c) : c \in EnhancedContents}

RouteMaxRetries == 3
RouteTimeout == 60000

PersonaIds == PersonaTypes \cup {"moderate_centrist"}

\* A bias level of a DebateConfig: absent or a number
BiasInputs == {None, Some(30), Some(31)}

\* biasLevels is typed as two numbers and nothing checks their range
BiasLevelsInputs ==
    {None}
    \cup {Some([persona1 |-> a, persona2 |-> b]) : a, b \in BiasInputs}
    \cup {Some([persona1 |-> Some(150), persona2 |-> Some(-20)])}

SearchInputs == {None, Some(TRUE), Some(FALSE)}

\* Every pair of identifiers with the other fields left out, and one
\* expert/grassroots pair with every choice of the other fields
Configs ==
    {[persona1Id |-> a, persona2Id |-> b, biasLevels |-> None, useTwitterSearch |-> None] :
        a \in PersonaIds, b \in PersonaIds}
    \cup
    {[persona1Id |-> "liberal_expert", persona2Id |-> "conservative_patriot",
      biasLevels |-> l, useTwitterSearch |-> u] :
        l \in BiasLevelsInputs, u \in SearchInputs}

----------------------------------------------------------------------------
(* Idle values of the orchestrator's state *)

NoConfig ==
    [persona1Id |-> "", persona2Id |-> "", biasLevels |-> None, useTwitterSearch |-> None]

NoDebate == [status |-> "idle", error |-> None, result |-> None]

NoRequest ==
    [phase |-> "idle", elapsed |-> 0, timer |-> FALSE, reply |-> None, outcome |-> None]

NoProbe == [op |-> "none"]

NoWire == [app |-> None, lib |-> None, reply |-> None]

----------------------------------------------------------------------------
(* A generate call made directly on a client *)

InitClient ==
    /\ clientConfig \in {[maxRetries |-> m, timeout |-> None] : m \in RetryOverrides}
    /\ client = GrokClient(clientConfig)
    /\ call = NoCall
    /\ attempts = 0
    /\ waits = 0
    /\ errors = <<>>
    /\ config = NoConfig
    /\ debate = NoDebate
    /\ pipeline = [p \in 1..2 |-> NoPipeline]
    /\ request = NoRequest
    /\ probe = NoProbe
    /\ wire = NoWire
    /\ libCall = NoCall

Sent(g) == IF g.phase = "request" THEN 1 ELSE 0

\* The wire once the app's call g has run up to its next await
posted(w, g) ==
    IF g.phase = "request" THEN [w EXCEPT !.app = Some(sentRequest(g.options))] ELSE w
Slept(g) == IF g.phase = "sleep" THEN 1 ELSE 0

CallGenerate ==
    /\ call.phase = "none"
    /\ \E options \in ClientOptions :
        call' = generate(client, options)
    /\ attempts' = attempts + Sent(call')
    /\ wire' = posted(wire, call')
    /\ UNCHANGED <<clientConfig, client, waits, errors, config, debate, pipeline,
                   request, probe, libCall>>

CallReply ==
    /\ call.phase = "request"
    /\ \E reply \in ClientReplies :
        /\ call' = generateAfterRequest(client, call, reply)
        /\ wire' = [wire EXCEPT !.reply = Some(reply)]
        /\ errors' =
            LET r == tryAttempt(call, reply)
            IN  IF r.error /= None THEN Append(errors, r.error[1]) ELSE errors
    /\ waits' = waits + Slept(call')
    /\ UNCHANGED <<clientConfig, client, attempts, config, debate, pipeline,
                   request, probe, libCall>>

CallWake ==
    /\ call.phase = "sleep"
    /\ call' = generateAfterSleep(client, call)
    /\ attempts' = attempts + Sent(call')
    /\ wire' = posted(wire, call')
    /\ UNCHANGED <<clientConfig, client, waits, errors, config, debate, pipeline,
                   request, probe, libCall>>

NextClient == CallGenerate \/ CallReply \/ CallWake

SpecClient == InitClient /\ [][NextClient]_vars

----------------------------------------------------------------------------
(* Claims about generate *)

CallEnded == call.phase \in {"returned", "thrown"}

AllRateLimited == \A i \in 1..Len(errors) : errors[i].statusCode = Some(429)

\* C3: a generate call never sends more than maxRetries requests, and when
\* every attempt is answered 429 it fails after exactly maxRetries of them.
C3_AttemptsWithinBudget ==
    /\ attempts <= client.maxRetries
    /\ (call.phase = "thrown" /\ AllRateLimited) =>
            /\ attempts = client.maxRetries
            /\ Len(errors) = client.maxRetries
    /\ (call.phase = "request") => attempts = call.attempt + 1

C3_Witness ==
    /\ client.maxRetries = 3
    /\ call.phase = "thrown"
    /\ attempts = 3
    /\ Len(errors) = 3
    /\ AllRateLimited

\* C4: an attempt failing with anything but a 429 ends the call at once with
\* that error: it starts no wait and is the last attempt, whatever is left
\* of the budget.
C4_OtherFailuresNotRetried ==
    (errors /= <<>> /\ Last(errors).statusCode /= Some(429)) =>
        /\ call.phase = "thrown"
        /\ call.error = Some(Last(errors))
        /\ attempts = Len(errors)
        /\ waits = Len(errors) - 1

C4_Witness ==
    /\ call.phase = "thrown"
    /\ errors /= <<>>
    /\ Last(errors) \in {TimeoutError, NoChoicesError, HttpError(StatusReply(500, "internal error"))}
    /\ attempts < client.maxRetries

\* C9: a failed generate call surfaces the error of the last attempt it made.
C9_LastErrorSurfaced ==
    call.phase = "thrown" =>
        /\ errors /= <<>>
        /\ call.error = Some(Last(errors))

C9_Witness ==
    /\ call.phase = "thrown"
    /\ Len(errors) >= 2
    /\ call.error = Some(Last(errors))
    /\ errors[1] /= Last(errors)

\* C10: backoff waits happen only between attempts: a call that has ended
\* after k attempts has made at most k-1 waits, and no wait is started once
\* the last attempt of the budget has failed.
C10_WaitsOnlyBetweenAttempts ==
    /\ CallEnded => waits <= attempts - 1
    /\ call.phase = "sleep" => attempts < client.maxRetries

\* C21: a request sent by generate carries the search block (the domains
\* x.com and twitter.com, the favorite and view minimums, the one-week
\* window, the maximum source count) exactly when search is enabled for the
\* call; a voice-enhancement request is sent without it; and the sources of
\* a response are populated only when search was enabled and the reply
\* carried source data.
C21_SearchBlockIffEnabled ==
    /\ call.phase = "request" =>
            /\ wire.app /= None
            /\ LET block == wire.app[1].body.search_parameters
               IN  /\ block /= None <=> call.options.useSearch
                   /\ block /= None =>
                        /\ block[1].domains = <<"x.com", "twitter.com">>
                        /\ block[1].post_favorite_count = 10
                        /\ block[1].post_view_count = 100
                        /\ block[1].time_range = "week"
                        /\ block[1].max_sources = 20
                   /\ call.options.prompt.kind = "enhance" => block = None
    /\ (call.phase = "returned" /\ call.value[1].sources /= None) =>
            /\ call.options.useSearch
            /\ wire.reply[1].search_results /= None \/ wire.reply[1].sources /= None

\* A call with search enabled has posted the search block and has returned
\* the two sources of the reply.
C21_Witness ==
    /\ call.phase = "returned"
    /\ call.options.useSearch
    /\ wire.app[1].body.search_parameters /= None
    /\ wire.reply[1].search_results /= None
    /\ call.value[1].sources /= None
    /\ Len(call.value[1].sources[1]) = 2

\* C23: the retry count given at construction is the budget of generate:
\* for every given n from 0 up a call makes at most n request attempts, and
\* the default of 3 is the budget only when no count is given.
C23_OverrideIsBudget ==
    IF clientConfig.maxRetries = None
    THEN client.maxRetries = DefaultMaxRetries /\ attempts <= DefaultMaxRetries
    ELSE client.maxRetries = clientConfig.maxRetries[1]
         /\ attempts <= clientConfig.maxRetries[1]

----------------------------------------------------------------------------
(* A makeRequest call under its timer *)

MaxTimeoutOverride == 3
MaxElapsed == 5
TimeoutOverrides == {None} \cup {Some(t) : t \in 0..MaxTimeoutOverride}
RequestReplies == ClientReplies \ {AbortReply}

InitRequest ==
    /\ clientConfig \in {[maxRetries |-> None, timeout |-> t] : t \in TimeoutOverrides}
    /\ client = GrokClient(clientConfig)
    /\ call = NoCall
    /\ attempts = 0
    /\ waits = 0
    /\ errors = <<>>
    /\ config = NoConfig
    /\ debate = NoDebate
    /\ pipeline = [p \in 1..2 |-> NoPipeline]
    /\ request = NoRequest
    /\ probe = NoProbe
    /\ wire = NoWire
    /\ libCall = NoCall

RequestIdle ==
    UNCHANGED <<clientConfig, client, call, attempts, waits, errors, config, debate,
                pipeline, probe, wire, libCall>>

MakeRequest ==
    /\ request.phase = "idle"
    /\ request' = startRequest
    /\ RequestIdle

\* A millisecond passes while the call is pending.  A timer that is due
\* fires before more time passes.
Tick ==
    /\ request.phase \in {"fetch", "body"}
    /\ request.elapsed < MaxElapsed
    /\ ~timerDue(client, request)
    /\ request' = [request EXCEPT !.elapsed = @ + 1]
    /\ RequestIdle

FetchResolves ==
    /\ request.phase = "fetch"
    /\ \E reply \in RequestReplies : request' = fetchResolved(request, reply)
    /\ RequestIdle

BodyArrives ==
    /\ request.phase = "body"
    /\ request' = bodyRead(request)
    /\ RequestIdle

TimerFires ==
    /\ timerDue(client, request)
    /\ request' = timerFired(request)
    /\ RequestIdle

NextRequest == MakeRequest \/ Tick \/ FetchResolves \/ BodyArrives \/ TimerFires

SpecRequest == InitRequest /\ [][NextRequest]_vars

----------------------------------------------------------------------------
(* Claims about makeRequest *)

\* C11: an attempt is bounded by the client's timeout: while it is pending,
\* waiting for the response or reading the response body, no more than the
\* configured duration has elapsed since it began.
C11_AttemptBoundedByTimeout ==
    request.phase \in {"fetch", "body"} => request.elapsed <= client.timeout

----------------------------------------------------------------------------
(* Calls of the pure methods *)

\* Catalogs: the profiles of the registry, any of them in any order
Catalogs ==
    {c \in UNION {[1..n -> PersonaTypes] : n \in 0..Cardinality(PersonaTypes)} :
        \A i, j \in DOMAIN c : i /= j => c[i] /= c[j]}

\* Usage values a GrokResponse can carry: none, or the token counts
MaxSources == 3
UsageInputs ==
    {None}
    \cup {Some([promptTokens |-> t[1], completionTokens |-> t[2], totalTokens |-> t[1] + t[2]]) :
            t \in {<<0, 0>>, <<1, 0>>, <<0, 1>>, <<1200, 800>>}}

Topics ==
    {<<"t", "a", "x", "e", "s">>,
     <<"T", "a", "x", " ", "P", "O", "L", "I", "C", "Y">>,
     <<"p", "o", "l", "i">>,
     Rep("x", 50), Rep("x", 99), Rep("x", 100), Rep("x", 101)}
Contexts ==
    {None, Some(<<>>),
     Some(<<"c", "y">>),
     Some(<<"L", "e", "g", "a", "l", " ", "l", "i", "m", "i", "t", "s">>),
     Some(Rep("y", 49)), Some(Rep("y", 50))}

MaxAttempt == 6

\* Contents for extractTitle: headings of one and of two markers, blank
\* lines before the first line, no line at all
TitleContents ==
    {<<"#", " ", "T", "i", "t", "l", "e", "\n", "b", "o", "d", "y">>,
     <<"#", "#", " ", "T", "i", "t", "l", "e", "\n", "b", "o", "d", "y">>,
     <<"\n", " ", " ", "\n", " ", " ", "P", "l", "a", "i", "n", " ", "t", "i", "t", "l", "e", " ", " ", "\n", "#", " ", "l", "a", "t", "e", "r">>,
     <<"#", "T", "i", "t", "l", "e">>,
     <<"#">>,
     <<"T", "i", "t", "l", "e">>,
     <<" ", "\n", "	", "\n">>,
     <<>>,
     c400}

InitFunctions ==
    /\ clientConfig = [maxRetries |-> None, timeout |-> None]
    /\ client = GrokClient(clientConfig)
    /\ call = NoCall
    /\ attempts = 0
    /\ waits = 0
    /\ errors = <<>>
    /\ config = NoConfig
    /\ debate = NoDebate
    /\ pipeline = [p \in 1..2 |-> NoPipeline]
    /\ request = NoRequest
    /\ probe = NoProbe
    /\ wire = NoWire
    /\ libCall = NoCall

FunctionsIdle ==
    UNCHANGED <<clientConfig, client, call, attempts, waits, errors, config, debate,
                pipeline, request, wire, libCall>>

ValidatePersonaPair ==
    /\ \E persona1, persona2 \in PersonaIds :
        probe' = [op |-> "validatePersonaPair", args |-> <<persona1, persona2>>,
                  result |-> validatePersonaPair(persona1, persona2)]
    /\ FunctionsIdle

GetValidCombinations ==
    /\ \E c \in Catalogs :
        LET allPersonas == [i \in DOMAIN c |-> personas[c[i]]]
        IN  probe' = [op |-> "getValidCombinations", args |-> allPersonas,
                      result |-> getValidCombinations(allPersonas)]
    /\ FunctionsIdle

EstimateCost ==
    /\ \E usage \in UsageInputs, searchSources \in 0..MaxSources :
        probe' = [op |-> "estimateCost", args |-> <<usage, searchSources>>,
                  result |-> estimateCost(usage, searchSources)]
    /\ FunctionsIdle

SelectModel ==
    /\ \E topic \in Topics, context \in Contexts :
        probe' = [op |-> "selectModel", args |-> <<topic, context>>,
                  result |-> selectModel(topic, context)]
    /\ FunctionsIdle

GetRetryDelay ==
    /\ \E attempt \in 0..MaxAttempt, n \in 0..(RandomSteps - 1) :
        probe' = [op |-> "getRetryDelay", args |-> <<attempt, n>>,
                  result |-> getRetryDelay(attempt, n)]
    /\ FunctionsIdle

ExtractTitle ==
    /\ \E content \in TitleContents :
        probe' = [op |-> "extractTitle", args |-> content, result |-> extractTitle(content)]
    /\ FunctionsIdle

NextFunctions ==
    \/ ExtractTitle
    \/ GetRetryDelay
    \/ ValidatePersonaPair
    \/ GetValidCombinations
    \/ EstimateCost
    \/ SelectModel

SpecFunctions == InitFunctions /\ [][NextFunctions]_vars

----------------------------------------------------------------------------
(* Claims about the pure methods *)

\* C15: validatePersonaPair is symmetric and irreflexive: for every pair of
\* identifiers, known or not, the answer is the same in both orders, it is
\* true exactly when both identifiers resolve to profiles of different
\* leanings, and it is false for an identifier paired with itself.
C15_ValidatePairSymmetric ==
    probe.op = "validatePersonaPair" =>
        LET a == probe.args[1]
            b == probe.args[2]
        IN  /\ probe.result = validatePersonaPair(b, a)
            /\ probe.result =
                    (/\ a \in PersonaTypes
                     /\ b \in PersonaTypes
                     /\ personas[a].politicalLeaning /= personas[b].politicalLeaning)
            /\ a = b => ~probe.result

\* Two profiles of one leaning have been paired, and refused.
C15_Witness ==
    /\ probe.op = "validatePersonaPair"
    /\ probe.args = <<"conservative_expert", "conservative_patriot">>
    /\ ~probe.result

\* The two profiles of the entry k of a result, as a set of identifiers.
PairOf(k) == {probe.result[k].persona1.personaId, probe.result[k].persona2.personaId}

\* The profiles of one leaning among the arguments of the call.
OfLeaning(l) == {i \in DOMAIN probe.args : probe.args[i].politicalLeaning = l}

\* C16: getValidCombinations returns exactly the unordered pairs of catalog
\* profiles of different leanings, each once: with m profiles of one
\* leaning and n of the other it has m*n entries (4 for the shipped
\* catalog), no pair is listed in both orders, no entry joins two profiles
\* of one leaning, and a pair of catalog profiles is in the result exactly
\* when validatePersonaPair accepts it.
C16_ValidCombinationsExact ==
    probe.op = "getValidCombinations" =>
        LET result == probe.result
            ids == {probe.args[i].personaId : i \in DOMAIN probe.args}
        IN  /\ Len(result) =
                    Cardinality(OfLeaning("liberal")) * Cardinality(OfLeaning("conservative"))
            /\ probe.args = getAllPersonas => Len(result) = 4
            /\ \A k, l \in DOMAIN result : k /= l => PairOf(k) /= PairOf(l)
            /\ \A k \in DOMAIN result :
                    result[k].persona1.politicalLeaning /= result[k].persona2.politicalLeaning
            /\ \A a, b \in ids :
                    (\E k \in DOMAIN result : PairOf(k) = {a, b}) <=> validatePersonaPair(a, b)

\* The call on the registry's own catalog, which gives four entries.
C16_Witness ==
    /\ probe.op = "getValidCombinations"
    /\ probe.args = getAllPersonas
    /\ Len(probe.result) = 4

\* The cost of the tokens of a usage value, nothing for an absent one.
TokenCost(usage) ==
    IF usage = None
    THEN 0
    ELSE usage[1].promptTokens * InputCostPerToken
         + usage[1].completionTokens * OutputCostPerToken

\* C17: estimateCost is linear in the number of sources: for every usage
\* value, absent or present, and every number s of sources,
\* estimateCost(usage, s) is estimateCost(usage, 0) plus s times the cost of
\* a source, estimateCost(usage, 0) being the cost of the tokens alone; zero
\* usage with zero sources costs nothing.
C17_EstimateCostLinear ==
    probe.op = "estimateCost" =>
        LET usage == probe.args[1]
            s == probe.args[2]
        IN  /\ probe.result = estimateCost(usage, 0) + s * SearchCostPerSource
            /\ estimateCost(usage, 0) = TokenCost(usage)
            /\ (TokenCost(usage) = 0 /\ s = 0) => probe.result = 0

\* The text of an optional string.
TextOf(context) == IF context = None THEN <<>> ELSE context[1]

HasKeyword(text) == \E keyword \in reasoningKeywords : includes(toLowerCase(text), keyword)

\* C18 as stated: selectModel returns the reasoning model exactly when the
\* lower-cased topic or context contains a keyword or the topic and the
\* context together are longer than 100 characters; a keyword-free topic of
\* at most 100 characters with no context gives the fast model, and a topic
\* containing "policy" gives the reasoning model.
C18_SelectModelRule ==
    probe.op = "selectModel" =>
        LET topic == probe.args[1]
            context == probe.args[2]
        IN  /\ probe.result \in {"grok-4-fast-reasoning", "grok-4-fast"}
            /\ probe.result = "grok-4-fast-reasoning" <=>
                    \/ HasKeyword(topic) \/ HasKeyword(TextOf(context))
                    \/ Len(topic) + Len(TextOf(context)) > ReasoningMinLength
            /\ (~HasKeyword(topic) /\ Len(topic) <= ReasoningMinLength /\ context = None)
                    => probe.result = "grok-4-fast"
            /\ includes(topic, <<"p", "o", "l", "i", "c", "y">>)
                    => probe.result = "grok-4-fast-reasoning"

\* C18, amended: the length that is compared with 100 is that of the topic,
\* one space and the context: selectModel returns the reasoning model
\* exactly when the lower-cased topic or context contains a keyword or the
\* two lengths add up to more than 99; a keyword-free topic of at most 99
\* characters with no context gives the fast model, and a topic containing
\* "policy" gives the reasoning model.
C18_SelectModelRuleWithSeparator ==
    probe.op = "selectModel" =>
        LET topic == probe.args[1]
            context == probe.args[2]
        IN  /\ probe.result \in {"grok-4-fast-reasoning", "grok-4-fast"}
            /\ probe.result = "grok-4-fast-reasoning" <=>
                    \/ HasKeyword(topic) \/ HasKeyword(TextOf(context))
                    \/ Len(topic) + 1 + Len(TextOf(context)) > ReasoningMinLength
            /\ (~HasKeyword(topic) /\ Len(topic) < ReasoningMinLength /\ context = None)
                    => probe.result = "grok-4-fast"
            /\ includes(topic, <<"p", "o", "l", "i", "c", "y">>)
                    => probe.result = "grok-4-fast-reasoning"

\* A keyword-free topic of exactly 100 characters with no context, for which
\* the reasoning model is selected.
C18_Witness ==
    /\ probe.op = "selectModel"
    /\ Len(probe.args[1]) = ReasoningMinLength
    /\ ~HasKeyword(probe.args[1])
    /\ probe.args[2] = None
    /\ probe.result = "grok-4-fast-reasoning"

\* C25: the delay computed after a rate-limited attempt k lies within
\* [b, 1.3 b] milliseconds, where b is the smaller of 2^k * 1000 and 30000:
\* the base doubles with each attempt up to 30000 and the jitter added is
\* between nothing and 30% of b.
C25_RetryDelayRange ==
    probe.op = "getRetryDelay" =>
        LET k == probe.args[1]
            b == IF 2^k * 1000 < 30000 THEN 2^k * 1000 ELSE 30000
        IN  /\ probe.result >= b
            /\ 10 * probe.result <= 13 * b

\* The delay after the sixth attempt: the base is capped at 30000 and some
\* jitter has been added.
C25_Witness ==
    /\ probe.op = "getRetryDelay"
    /\ probe.args[1] = 5
    /\ probe.result > 30000

\* A line without its leading run of '#' and the white space after it.
WithoutMarkers(line) ==
    LET rest == {i \in 1..Len(line) : line[i] /= "#"}
        text == IF rest = {} THEN <<>> ELSE SubSeq(line, SetMin(rest), Len(line))
    IN  trim(text)

\* C26: the title is the first non-blank line of the content, trimmed, with
\* all its leading heading markers removed, so that it never begins with
\* '#'; for content without a non-blank line it is 'Untitled'.
C26_TitleWithoutMarkers ==
    probe.op = "extractTitle" =>
        LET lines == split(probe.args, "\n")
            nonBlank == {i \in DOMAIN lines : trim(lines[i]) /= <<>>}
        IN  IF nonBlank = {}
            THEN probe.result = Untitled
            ELSE /\ probe.result = WithoutMarkers(trim(lines[SetMin(nonBlank)]))
                 /\ probe.result = <<>> \/ probe.result[1] /= "#"

----------------------------------------------------------------------------
(* A generateDebate call *)

Init ==
    /\ clientConfig = [maxRetries |-> Some(RouteMaxRetries), timeout |-> Some(RouteTimeout)]
    /\ client = GrokClient(clientConfig)
    /\ call = NoCall
    /\ attempts = 0
    /\ waits = 0
    /\ errors = <<>>
    /\ config \in Configs
    /\ debate = NoDebate
    /\ pipeline = [p \in 1..2 |-> NoPipeline]
    /\ request = NoRequest
    /\ probe = NoProbe
    /\ wire = NoWire
    /\ libCall = NoCall

ClientIdle ==
    UNCHANGED <<clientConfig, client, call, attempts, waits, errors, config, request, probe,
                wire, libCall>>

\* generateDebate from its call to its first suspension
generateDebateStep ==
    /\ debate.status = "idle"
    /\ LET started == generateDebate(client, config)
       IN  /\ pipeline' = started.pipelines
           /\ debate' = awaitPipelines(started.debate, config, started.pipelines)

GenerateDebate == generateDebateStep /\ ClientIdle

\* The upstream answers pipeline p's primary request.
primaryReplyStep(p) ==
    /\ pipeline[p].pc = "primary"
    /\ pipeline[p].gen.phase = "request"
    /\ \E reply \in PrimaryReplies :
        pipeline' = resume(debate, pipeline, p,
            afterPrimary(client, pipeline[p],
                         generateAfterRequest(client, pipeline[p].gen, reply)))
    /\ debate' = awaitPipelines(debate, config, pipeline')

PrimaryReply(p) == primaryReplyStep(p) /\ ClientIdle

\* Pipeline p's backoff wait in its primary call ends.
primaryWakeStep(p) ==
    /\ pipeline[p].pc = "primary"
    /\ pipeline[p].gen.phase = "sleep"
    /\ pipeline' = resume(debate, pipeline, p,
            afterPrimary(client, pipeline[p], generateAfterSleep(client, pipeline[p].gen)))
    /\ debate' = awaitPipelines(debate, config, pipeline')

PrimaryWake(p) == primaryWakeStep(p) /\ ClientIdle

\* The upstream answers pipeline p's enhancement request.
enhanceReplyStep(p) ==
    /\ pipeline[p].pc = "enhance"
    /\ pipeline[p].gen.phase = "request"
    /\ \E reply \in EnhanceReplies :
        pipeline' = resume(debate, pipeline, p,
            afterEnhance(pipeline[p], generateAfterRequest(client, pipeline[p].gen, reply)))
    /\ debate' = awaitPipelines(debate, config, pipeline')

EnhanceReply(p) == enhanceReplyStep(p) /\ ClientIdle

\* Pipeline p's backoff wait in its enhancement call ends.
enhanceWakeStep(p) ==
    /\ pipeline[p].pc = "enhance"
    /\ pipeline[p].gen.phase = "sleep"
    /\ pipeline' = resume(debate, pipeline, p,
            afterEnhance(pipeline[p], generateAfterSleep(client, pipeline[p].gen)))
    /\ debate' = awaitPipelines(debate, config, pipeline')

EnhanceWake(p) == enhanceWakeStep(p) /\ ClientIdle

Next ==
    \/ GenerateDebate
    \/ \E p \in 1..2 : PrimaryReply(p)
    \/ \E p \in 1..2 : PrimaryWake(p)
    \/ \E p \in 1..2 : EnhanceReply(p)
    \/ \E p \in 1..2 : EnhanceWake(p)

Spec == Init /\ [][Next]_vars

\* Configurations for the runs under fairness: a refused pair, and an
\* accepted one with the default bias levels and with one persona at the
\* enhancement threshold
FairConfigs ==
    {c \in Configs :
        /\ c.persona1Id = "liberal_expert"
        /\ c.persona2Id \in {"conservative_patriot", "liberal_grassroots"}
        /\ c.useTwitterSearch = None
        /\ c.biasLevels \in {None, Some([persona1 |-> Some(30), persona2 |-> Some(31)])}}

InitFair == Init /\ config \in FairConfigs

\* Every pending step is eventually taken: the call is begun, every
\* request is answered or ended by its timeout, every backoff wait ends.
Fairness ==
    /\ WF_vars(GenerateDebate)
    /\ \A p \in 1..2 :
        /\ WF_vars(PrimaryReply(p))
        /\ WF_vars(PrimaryWake(p))
        /\ WF_vars(EnhanceReply(p))
        /\ WF_vars(EnhanceWake(p))

SpecFair == InitFair /\ [][Next]_vars /\ Fairness

----------------------------------------------------------------------------
(* Claims about generateDebate *)

Pipelines == 1..2

Resolves(id) == id \in PersonaTypes

SameLeaning(a, b) == personas[a].politicalLeaning = personas[b].politicalLeaning

\* The configuration names an unknown persona or two personas of one leaning.
InvalidConfig ==
    \/ ~Resolves(config.persona1Id)
    \/ ~Resolves(config.persona2Id)
    \/ SameLeaning(config.persona1Id, config.persona2Id)

\* No generate call was begun for pipeline p and none of its requests is pending.
NothingIssued(p) ==
    /\ pipeline[p].pc = "idle"
    /\ pipeline[p].gen.phase = "none"
    /\ pipeline[p].enhancerCalls = 0
    /\ pipeline[p].grokResponse = None
    /\ pipeline[p].enhanced = None

\* C1: generateDebate is all-or-nothing: a result exists only on success,
\* after both pipelines have completed, and holds exactly their two
\* responses; once a pipeline has failed the call has failed, with no result.
C1_AllOrNothing ==
    /\ debate.status = "success" =>
        /\ \A p \in Pipelines : pipeline[p].pc = "fulfilled" /\ pipeline[p].response /= None
        /\ debate.result /= None
        /\ debate.result[1].personas.persona1.content = pipeline[1].response
        /\ debate.result[1].personas.persona2.content = pipeline[2].response
    /\ debate.result /= None => debate.status = "success"
    /\ (\E p \in Pipelines : pipeline[p].pc = "rejected") =>
        /\ debate.status = "failed"
        /\ debate.result = None

C1_Witness ==
    /\ pipeline[1].pc = "fulfilled"
    /\ pipeline[2].pc = "rejected"
    /\ debate.status = "failed"
    /\ debate.result = None

\* C2: with an identifier that does not resolve, or two profiles of the same
\* leaning, generateDebate fails at validation and no request, primary or
\* enhancement, is ever issued.
C2_InvalidPairIssuesNothing ==
    InvalidConfig =>
        /\ \A p \in Pipelines : NothingIssued(p)
        /\ debate.status \in {"idle", "failed"}
        /\ debate.status = "failed" => debate.error = Some(ValidationError)

C2_Witness ==
    /\ Resolves(config.persona1Id)
    /\ Resolves(config.persona2Id)
    /\ SameLeaning(config.persona1Id, config.persona2Id)
    /\ debate.status = "failed"
    /\ \A p \in Pipelines : NothingIssued(p)

\* Pipeline p's enhancement was invoked and failed: its API call raised an
\* error, or the text returned is empty or at most 50 characters trimmed.
EnhancementFailed(p) ==
    /\ pipeline[p].enhanced /= None
    /\ \/ pipeline[p].enhanced[1].thrown
       \/ pipeline[p].enhanced[1].text = <<>>
       \/ Len(trim(pipeline[p].enhanced[1].text)) <= 50

\* C5: a response whose enhancement failed has voiceEnhanced = false, and
\* voiceEnhanced = true only when the enhanced text replaced the prefix.
C5_FailedEnhancementNotFlagged ==
    \A p \in Pipelines :
        pipeline[p].response /= None =>
            /\ EnhancementFailed(p) => ~pipeline[p].response[1].voiceEnhanced
            /\ pipeline[p].response[1].voiceEnhanced =>
                /\ pipeline[p].enhanced /= None
                /\ ~EnhancementFailed(p)

\* C6: when the enhancement fails, the response's content is the content
\* the primary generation returned, unchanged.
C6_FailedEnhancementKeepsContent ==
    \A p \in Pipelines :
        (pipeline[p].response /= None /\ EnhancementFailed(p)) =>
            pipeline[p].response[1].content = pipeline[p].grokResponse[1].content

C6_Witness ==
    \E p \in Pipelines :
        /\ pipeline[p].response /= None
        /\ pipeline[p].enhanced /= None
        /\ ~pipeline[p].enhanced[1].thrown
        /\ Len(pipeline[p].enhanced[1].text) > 50
        /\ Len(trim(pipeline[p].enhanced[1].text)) = 50
        /\ Len(pipeline[p].grokResponse[1].content) > 600

\* C7: once its primary call has succeeded a pipeline cannot fail, whatever
\* the enhancement call does, so after validation generateDebate fails only
\* with the error of a failed primary call.
C7_EnhancementNeverFails ==
    /\ \A p \in Pipelines :
        /\ pipeline[p].grokResponse /= None => pipeline[p].pc \in {"enhance", "fulfilled"}
        /\ pipeline[p].enhanced /= None =>
                pipeline[p].pc = "fulfilled" /\ pipeline[p].response /= None
        /\ pipeline[p].pc = "rejected" =>
                pipeline[p].grokResponse = None /\ pipeline[p].enhancerCalls = 0
    /\ (debate.status = "failed" /\ ~InvalidConfig) =>
            \E p \in Pipelines :
                /\ pipeline[p].pc = "rejected"
                /\ pipeline[p].grokResponse = None
                /\ debate.error = pipeline[p].error

C7_Witness ==
    /\ debate.status = "success"
    /\ pipeline[1].enhanced /= None
    /\ pipeline[1].enhanced[1].thrown
    /\ pipeline[2].enhanced /= None
    /\ pipeline[2].enhanced[1].text = <<>>

\* C8: the enhancer is invoked exactly when the primary content is longer
\* than 500 characters and the bias level is above 0.3; otherwise no
\* enhancement call is made and voiceEnhanced = false.
C8_EnhancerInvokedIffEligible ==
    \A p \in Pipelines :
        IF pipeline[p].grokResponse = None
        THEN pipeline[p].enhancerCalls = 0 /\ pipeline[p].pc /= "enhance"
        ELSE LET eligible ==
                    /\ Len(pipeline[p].grokResponse[1].content) > 500
                    /\ pipeline[p].biasLevel > 30
             IN  /\ pipeline[p].enhancerCalls = (IF eligible THEN 1 ELSE 0)
                 /\ ~eligible =>
                        /\ pipeline[p].pc = "fulfilled"
                        /\ pipeline[p].gen.phase = "none"
                        /\ pipeline[p].enhanced = None
                        /\ ~pipeline[p].response[1].voiceEnhanced
                 /\ (eligible /\ pipeline[p].pc = "enhance") =>
                        /\ pipeline[p].gen.phase \in {"request", "sleep"}
                        /\ pipeline[p].gen.options.prompt.kind = "enhance"

C8_Witness ==
    \E p \in Pipelines :
        /\ pipeline[p].grokResponse /= None
        /\ Len(pipeline[p].grokResponse[1].content) = 400
        /\ pipeline[p].biasLevel = 50
        /\ pipeline[p].response /= None
        /\ ~pipeline[p].response[1].voiceEnhanced
        /\ pipeline[p].enhancerCalls = 0

\* C12: in every DebateResult the responses are bound by position, not by
\* the order in which the pipelines finished: persona1.content is the
\* response generated for persona1Id and persona2.content the one generated
\* for persona2Id, each with the leaning of its own persona, so the two
\* perspectives differ.
C12_ResponsesBoundByPosition ==
    debate.status = "success" =>
        LET r == debate.result[1].personas
            content1 == r.persona1.content[1]
            content2 == r.persona2.content[1]
        IN  /\ r.persona1.id = config.persona1Id
            /\ r.persona2.id = config.persona2Id
            /\ r.persona1.content = pipeline[1].response
            /\ r.persona2.content = pipeline[2].response
            /\ content1.persona.id = config.persona1Id
            /\ content2.persona.id = config.persona2Id
            /\ content1.perspective = personas[config.persona1Id].politicalLeaning
            /\ content2.perspective = personas[config.persona2Id].politicalLeaning
            /\ content1.perspective /= content2.perspective

\* The second pipeline settled first and the debate succeeded with two
\* different contents.
C12_Witness ==
    /\ debate.status = "success"
    /\ pipeline[2].settledAt = 1
    /\ pipeline[1].settledAt = 2
    /\ pipeline[1].response[1].content /= pipeline[2].response[1].content

\* A step of pipeline p is pending.
Pending(p) == pipeline[p].gen.phase \in {"request", "sleep"}

\* The pending step of pipeline p can be taken.
CanStep(p) ==
    ENABLED (PrimaryReply(p) \/ PrimaryWake(p) \/ EnhanceReply(p) \/ EnhanceWake(p))

\* C13: the two pipelines run concurrently and independently: once
\* generateDebate has accepted its configuration both primary calls have
\* been made, neither waiting for the other, and whatever the state of its
\* sibling (in flight, waiting for a retry, enhancing, settled) a pipeline's
\* pending step can be taken.
C13_PipelinesIndependent ==
    /\ (debate.status /= "idle" /\ ~InvalidConfig) =>
            \A p \in Pipelines : pipeline[p].pc /= "idle"
    /\ \A p \in Pipelines : Pending(p) => CanStep(p)

\* Both primary requests are in flight at once, the second pipeline's for
\* the second time while the first pipeline's first request is unanswered.
C13_Witness ==
    /\ \A p \in Pipelines : pipeline[p].pc = "primary" /\ pipeline[p].gen.phase = "request"
    /\ pipeline[1].gen.attempt = 0
    /\ pipeline[2].gen.attempt = 1

\* C14: there is no cross-pipeline cancellation: the step in which a
\* pipeline fails, and with it generateDebate, leaves its sibling as it was,
\* its request in flight or its retry wait pending, and once generateDebate
\* has failed a step never touches the pipeline that is not taking it, so
\* the sibling goes on with its retries and its enhancement.
C14_NoCrossPipelineCancellation ==
    [][\A p, q \in Pipelines :
        (/\ p /= q
         /\ \/ pipeline[p].pc /= "rejected" /\ pipeline'[p].pc = "rejected"
            \/ debate.status = "failed" /\ pipeline'[p] /= pipeline[p])
        => pipeline'[q] = pipeline[q]]_vars

\* generateDebate has failed on the first pipeline, and the second has
\* since issued a request, its enhancement request now in flight.
C14_Witness ==
    /\ debate.status = "failed"
    /\ pipeline[1].pc = "rejected"
    /\ pipeline[2].late
    /\ pipeline[2].pc = "enhance"
    /\ pipeline[2].gen.phase = "request"

\* What the claim charges for a response: its tokens and its sources.
ChargeOf(response) ==
    TokenCost(response.tokenUsage)
    + (IF response.sourcesUsed = None THEN 0 ELSE Len(response.sourcesUsed[1]))
      * SearchCostPerSource

\* C19: in every DebateResult costAnalysis.totalEstimatedCost is the sum,
\* over the two responses, of the cost of the response's tokens plus the
\* cost of a source for each source URL it used, also for a response whose
\* reply carried sources but no usage object; the total is never negative.
C19_TotalCostIsSum ==
    debate.status = "success" =>
        LET result == debate.result[1]
            total == result.costAnalysis.totalEstimatedCost
        IN  /\ total = ChargeOf(result.personas.persona1.content[1])
                        + ChargeOf(result.personas.persona2.content[1])
            /\ total >= 0

\* C20: for every accepted DebateConfig, whatever numbers its biasLevels
\* hold, the bias applied to a pipeline is within [0, 1]: the biasLevel
\* recorded in its response is, and the temperature of its primary request
\* is within [0.65, 0.90] for an expert persona and within [0.70, 0.95] for
\* a grassroots one.
C20_BiasWithinUnitRange ==
    \A p \in Pipelines :
        /\ pipeline[p].response /= None => pipeline[p].response[1].biasLevel \in 0..100
        /\ (pipeline[p].pc = "primary" /\ Pending(p)) =>
                LET temperature == requestBody(pipeline[p].gen.options).temperature
                IN  IF pipeline[p].persona[1].expertiseLevel = "expert"
                    THEN temperature \in 6500..9000
                    ELSE temperature \in 7000..9500

\* C22: every generateDebate call eventually reaches Success or Failed, if
\* every request is eventually answered or ended by its timeout and every
\* backoff wait ends: the retry loops are bounded, also when every request
\* is answered 429.
C22_Terminates == <>(debate.status \in {"success", "failed"})

\* The call has failed on a pipeline whose primary requests were all
\* answered 429, while the other pipeline had gone on to its enhancement.
C22_Witness ==
    /\ debate.status = "failed"
    /\ debate.error /= None
    /\ debate.error[1].statusCode = Some(RateLimitStatus)
    /\ \E p \in Pipelines : pipeline[p].enhancerCalls = 1

\* C24: within a pipeline the voice-enhancement call is made only after the
\* pipeline's primary generate call has returned: while the primary call is
\* pending, in a request or in a backoff wait, no enhancement call has been
\* made, and a pending enhancement request belongs to a pipeline that holds
\* its primary response. It may be in flight together with any call of the
\* sibling.
C24_EnhancementAfterPrimary ==
    \A p \in Pipelines :
        /\ pipeline[p].pc = "primary" =>
                /\ pipeline[p].enhancerCalls = 0
                /\ pipeline[p].grokResponse = None
                /\ Pending(p) => pipeline[p].gen.options.prompt.kind = "post"
        /\ pipeline[p].enhancerCalls > 0 =>
                /\ pipeline[p].grokResponse /= None
                /\ pipeline[p].pc \in {"enhance", "fulfilled"}
        /\ (pipeline[p].pc = "enhance" /\ Pending(p)) =>
                /\ pipeline[p].gen.options.prompt.kind = "enhance"
                /\ pipeline[p].enhancerCalls = 1

\* The first pipeline's enhancement request is in flight while the second
\* pipeline's primary call is in a backoff wait.
C24_Witness ==
    /\ pipeline[1].pc = "enhance"
    /\ pipeline[1].gen.phase = "request"
    /\ pipeline[2].pc = "primary"
    /\ pipeline[2].gen.phase = "sleep"

\* C27: the sample sent for enhancement is the first min(600, length)
\* characters of the primary content, and when the enhancement returns a
\* text of more than 50 characters after trimming, the response's content is
\* that text followed by the primary content from position
\* min(600, length) onward, so content of at most 600 characters is
\* replaced entirely.
C27_EnhancedReplacesSample ==
    \A p \in Pipelines :
        LET pl == pipeline[p]
            original == pl.grokResponse[1].content
            sampleLength == IF Len(original) < 600 THEN Len(original) ELSE 600
        IN  /\ (pl.pc = "enhance" /\ pl.gen.phase \in {"request", "sleep"}) =>
                    pl.gen.options.prompt.sample = SubSeq(original, 1, sampleLength)
            /\ ( /\ pl.response /= None
                 /\ pl.enhanced /= None
                 /\ ~pl.enhanced[1].thrown
                 /\ Len(trim(pl.enhanced[1].text)) > 50 ) =>
                    /\ pl.response[1].content =
                            pl.enhanced[1].text
                                \o SubSeq(original, sampleLength + 1, Len(original))
                    /\ Len(original) <= 600 =>
                            pl.response[1].content = pl.enhanced[1].text

\* A primary content of 700 characters whose first 600 were replaced by an
\* enhanced text of 51.
C27_Witness ==
    \E p \in Pipelines :
        /\ pipeline[p].response /= None
        /\ pipeline[p].enhanced /= None
        /\ ~pipeline[p].enhanced[1].thrown
        /\ Len(trim(pipeline[p].enhanced[1].text)) = 51
        /\ Len(pipeline[p].grokResponse[1].content) = 700
        /\ Len(pipeline[p].response[1].content) = 151

\* C29: in every result the bias levels of the generation metadata are the
\* ones recorded in the two responses, for every DebateConfig: one with no
\* biasLevels (both 0.5) and one whose biasLevels gives only one of the two
\* values included.
C29_MetadataBiasMatchesApplied ==
    debate.status = "success" =>
        LET result == debate.result[1]
            biasLevels == result.generationMetadata.biasLevels
        IN  /\ biasLevels.persona1 = Some(result.personas.persona1.content[1].biasLevel)
            /\ biasLevels.persona2 = Some(result.personas.persona2.content[1].biasLevel)

----------------------------------------------------------------------------
(* The app's client and the library's client given the same call *)

\* `call` is the app's generate call and `libCall` the library's, made on
\* clients built from the same config with the same options; each request
\* of one and the matching request of the other get the same reply.
libPosted(w, g) ==
    IF g.phase = "request" THEN [w EXCEPT !.lib = Some(libSentRequest(g.options))] ELSE w

MirrorIdle ==
    UNCHANGED <<clientConfig, client, attempts, waits, errors, config, debate, pipeline,
                request, probe>>

MirrorGenerate ==
    /\ call.phase = "none"
    /\ libCall.phase = "none"
    /\ \E options \in ClientOptions :
        /\ call' = generate(client, options)
        /\ libCall' = libGenerate(client, options)
    /\ wire' = libPosted(posted(wire, call'), libCall')
    /\ MirrorIdle

MirrorReply ==
    /\ call.phase = "request" \/ libCall.phase = "request"
    /\ \E reply \in ClientReplies :
        /\ call' = IF call.phase = "request"
                   THEN generateAfterRequest(client, call, reply)
                   ELSE call
        /\ libCall' = IF libCall.phase = "request"
                      THEN libGenerateAfterRequest(client, libCall, reply)
                      ELSE libCall
        /\ wire' = [wire EXCEPT !.reply = Some(reply)]
    /\ MirrorIdle

MirrorWake ==
    /\ call.phase = "sleep" \/ libCall.phase = "sleep"
    /\ call' = IF call.phase = "sleep" THEN generateAfterSleep(client, call) ELSE call
    /\ libCall' = IF libCall.phase = "sleep"
                  THEN libGenerateAfterSleep(client, libCall)
                  ELSE libCall
    /\ wire' = libPosted(posted(wire, call'), libCall')
    /\ MirrorIdle

NextMirror == MirrorGenerate \/ MirrorReply \/ MirrorWake

SpecMirror == InitClient /\ [][NextMirror]_vars

\* The search-related fields of a request body of the app and of one of
\* the library.
AppSearchFields(body) ==
    [search_parameters |-> body.search_parameters, enable_search |-> None,
     max_search_sources |-> None]

LibSearchFields(body) ==
    [search_parameters |-> None, enable_search |-> body.enable_search,
     max_search_sources |-> body.max_search_sources]

\* C30: given the same config, options and upstream replies, the library's
\* client sends its requests to the same endpoint with the same
\* search-related fields as the app's client, makes as many attempts and
\* waits, and returns the same result or throws the same error.
C30_LibraryMirrorsApp ==
    /\ libCall.phase = call.phase
    /\ libCall.attempt = call.attempt
    /\ libCall.value = call.value
    /\ libCall.error = call.error
    /\ wire.app = None <=> wire.lib = None
    /\ wire.app /= None =>
        /\ wire.lib[1].endpoint = wire.app[1].endpoint
        /\ LibSearchFields(wire.lib[1].body) = AppSearchFields(wire.app[1].body)

----------------------------------------------------------------------------
(* A generateDebate call with its upstream requests counted *)

\* The steps of generateDebate with `attempts` counting the requests the
\* two pipelines have sent upstream
BudgetIdle ==
    UNCHANGED <<clientConfig, client, call, waits, errors, config, request, probe, wire,
                libCall>>

RequestsCounted ==
    attempts' = attempts
        + Cardinality({p \in DOMAIN pipeline : issuesRequest(pipeline[p], pipeline'[p])})

CountedGenerateDebate == generateDebateStep /\ RequestsCounted /\ BudgetIdle

CountedPrimaryReply(p) == primaryReplyStep(p) /\ RequestsCounted /\ BudgetIdle

CountedPrimaryWake(p) == primaryWakeStep(p) /\ RequestsCounted /\ BudgetIdle

CountedEnhanceReply(p) == enhanceReplyStep(p) /\ RequestsCounted /\ BudgetIdle

CountedEnhanceWake(p) == enhanceWakeStep(p) /\ RequestsCounted /\ BudgetIdle

NextBudget ==
    \/ CountedGenerateDebate
    \/ \E p \in 1..2 : CountedPrimaryReply(p)
    \/ \E p \in 1..2 : CountedPrimaryWake(p)
    \/ \E p \in 1..2 : CountedEnhanceReply(p)
    \/ \E p \in 1..2 : CountedEnhanceWake(p)

SpecBudget == InitFair /\ [][NextBudget]_vars

\* The generate calls begun so far: one primary call by every pipeline
\* that has started, and its enhancement calls.
GenerateCalls ==
    Cardinality({p \in Pipelines : pipeline[p].pc /= "idle"})
        + pipeline[1].enhancerCalls + pipeline[2].enhancerCalls

\* C28: one generateDebate call makes at most four generate calls, one
\* primary call per persona and at most one enhancement call per persona,
\* and so sends at most 4 * maxRetries upstream requests, whatever the
\* interleaving of the two pipelines.
C28_CallBudget ==
    /\ GenerateCalls <= 4
    /\ \A p \in Pipelines : pipeline[p].enhancerCalls <= 1
    /\ attempts <= 4 * client.maxRetries

\* Both primary calls succeeded at their last attempt and both
\* enhancement calls used every attempt: four calls and 4 * maxRetries
\* requests.
C28_Witness ==
    /\ debate.status = "success"
    /\ GenerateCalls = 4
    /\ attempts = 4 * client.maxRetries

====
